---- MODULE Spec2Model ----
(***************************************************************************)
(* Huffman compressor of lossless/huffman: the buffered bit reader         *)
(* (binary_file_reader.py), the grouping iterator                          *)
(* (grouping_file_reader.py), the tree and code-map builder                *)
(* (huffman_map.py) and the container codec (huffman_coding.py).           *)
(*                                                                         *)
(* Bits are the numbers 0 and 1, a bitarray is a sequence of bits, a byte  *)
(* is a number 0..255, a character is its Unicode code point and a string  *)
(* is a sequence of characters.                                            *)
(***************************************************************************)
EXTENDS Integers, Sequences, FiniteSets, TLC

VARIABLES
    reader,      \* BinaryFileReader: [file, pos, buffer, end_of_file]
    returned,    \* every bit the reader has handed out so far, in order
    last,        \* the last call made on the reader and what it returned
    grouper,     \* GroupingFileReader: [group_size, remaining_string]
    source,      \* the iterator it wraps: [text, pos], pos characters delivered
    yielded,     \* every group returned so far, in order
    batch,       \* the last batch returned
    stopped,     \* the grouping iterator has raised StopIteration
    symbol_occurrences,  \* the frequency table: symbol -> count
    encoding_map,        \* the Huffman map, a dict in insertion order:
                         \* a sequence of [symbol, code]
    built,               \* build_huffman_map has returned encoding_map
    text,            \* the characters of the input file of encode
    block_size,      \* --block-size
    bits_utf8_block, \* the width of a header entry's length field
    container,       \* the bytes of the .huff file
    decoding_map,    \* decode: code -> symbol
    encoding,        \* decode: the bits read since the last symbol
    output,          \* decode: the characters written
    pc,              \* "start", "encoded", "header", "body", "done", "raised"
                     \* ("idle" where the codec takes no part)
    outcome,         \* how decode ended: "eof" (the end-of-file symbol was
                     \* decoded), "exhausted" (the bits ran out), or the
                     \* exception raised
    truncated        \* a header field was read with fewer bits than it has

readerVars == <<reader, returned, last>>

groupVars == <<grouper, source, yielded, batch, stopped>>

huffVars == <<symbol_occurrences, encoding_map, built>>

codecVars == <<text, block_size, bits_utf8_block, container, decoding_map,
               encoding, output, pc, outcome, truncated>>

vars == <<reader, returned, last, grouper, source, yielded, batch, stopped,
          symbol_occurrences, encoding_map, built,
          text, block_size, bits_utf8_block, container, decoding_map,
          encoding, output, pc, outcome, truncated>>

-----------------------------------------------------------------------------
(* Bounds of the model *)

MaxFileBytes == 3     \* bytes in a file given to the bit reader
MaxRead == 18         \* largest n passed to read_bits
MaxGroupSize == 5     \* largest group_size of a grouping reader
MaxSymbols == 4       \* most entries of a frequency table given to the builder
MaxWeight == 3        \* largest count in such a table
MaxTextLen == 3       \* characters in an input file of encode
MaxBlockSize == 3     \* largest --block-size
MaxContainerBytes == 4  \* bytes in an arbitrary file given to decode

-----------------------------------------------------------------------------
(* Sequences and bits *)

Min(a, b) == IF a <= b THEN a ELSE b

Take(s, n) == SubSeq(s, 1, Min(n, Len(s)))

Drop(s, n) == SubSeq(s, Min(n, Len(s)) + 1, Len(s))

SeqsUpTo(S, n) == UNION {[1..k -> S] : k \in 0..n}

RECURSIVE Flatten(_)
Flatten(ss) == IF ss = <<>> THEN <<>> ELSE Head(ss) \o Flatten(Tail(ss))

\* '{0:08b}': the 8 bits of a byte, most significant first (bitarray.fromfile)
ByteBits(b) == [i \in 1..8 |-> (b \div (2 ^ (8 - i))) % 2]

BytesBits(bs) == Flatten([i \in 1..Len(bs) |-> ByteBits(bs[i])])

-----------------------------------------------------------------------------
(* binary_file_reader.py *)

\* bits.fromfile(file, number): appends the bytes that are there; EOFError
\* (caught, setting _end_of_file) when fewer than `number` are left.
read_bytes_from_file(r, number) ==
    LET avail == Len(r.file) - r.pos
        n     == Min(number, avail)
    IN  [bits        |-> BytesBits(SubSeq(r.file, r.pos + 1, r.pos + n)),
         pos         |-> r.pos + n,
         end_of_file |-> r.end_of_file \/ avail < number]

\* BinaryFileReader(file)
BinaryFileReader(file) ==
    LET r0 == [file |-> file, pos |-> 0, buffer |-> <<>>, end_of_file |-> FALSE]
        f  == read_bytes_from_file(r0, 1)
    IN  [r0 EXCEPT !.buffer = f.bits, !.pos = f.pos, !.end_of_file = f.end_of_file]

\* A refill that is added to what is left of the buffer, not held back
\* until the buffer is used up.
read_bits_from_buffer_topping_up(r, number) ==
    LET t == read_bytes_from_file(r, 1)
    IN  [reader |-> [r EXCEPT !.buffer = Drop(r.buffer, number) \o t.bits,
                              !.pos = t.pos, !.end_of_file = t.end_of_file],
         bits   |-> Take(r.buffer, number)]

\* read_bits when the buffer holds more than `number` bits: no refill
read_bits_from_buffer(r, number) ==
    [reader |-> [r EXCEPT !.buffer = Drop(r.buffer, number)],
     bits   |-> Take(r.buffer, number)]

\* The last byte read is kept whole as the new buffer, although its first
\* bits were handed out.
read_bits_from_file_keeping_byte(r, number) ==
    LET number_missing_bits        == number - Len(r.buffer)
        number_whole_missing_bytes == number_missing_bits \div 8
        w  == IF number_whole_missing_bytes > 0
              THEN read_bytes_from_file(r, number_whole_missing_bytes)
              ELSE [bits |-> <<>>, pos |-> r.pos, end_of_file |-> r.end_of_file]
        r1 == [r EXCEPT !.pos = w.pos, !.end_of_file = w.end_of_file]
        number_final_bits == number_missing_bits % 8
        t  == read_bytes_from_file(r1, 1)
        r2 == [r1 EXCEPT !.pos = t.pos, !.end_of_file = t.end_of_file]
    IN  [reader |-> [r2 EXCEPT !.buffer = t.bits],
         bits   |-> r.buffer \o w.bits \o Take(t.bits, number_final_bits)]

\* read_bits when the buffer holds at most `number` bits: the buffer, then
\* whole bytes from the file, then the first bits of one more byte, whose
\* rest becomes the buffer
read_bits_from_file(r, number) ==
    LET number_missing_bits        == number - Len(r.buffer)
        number_whole_missing_bytes == number_missing_bits \div 8
        w  == IF number_whole_missing_bytes > 0
              THEN read_bytes_from_file(r, number_whole_missing_bytes)
              ELSE [bits |-> <<>>, pos |-> r.pos, end_of_file |-> r.end_of_file]
        r1 == [r EXCEPT !.pos = w.pos, !.end_of_file = w.end_of_file]
        number_final_bits == number_missing_bits % 8
        t  == read_bytes_from_file(r1, 1)
        r2 == [r1 EXCEPT !.pos = t.pos, !.end_of_file = t.end_of_file]
    IN  IF number_final_bits > 0
        THEN [reader |-> [r2 EXCEPT !.buffer = Drop(t.bits, number_final_bits)],
              bits   |-> r.buffer \o w.bits \o Take(t.bits, number_final_bits)]
        ELSE [reader |-> [r2 EXCEPT !.buffer = t.bits],
              bits   |-> r.buffer \o w.bits]

\* reader.read_bits(number): the reader afterwards and the bits returned
read_bits(r, number) ==
    IF r.end_of_file THEN [reader |-> r, bits |-> <<>>]
    ELSE IF Len(r.buffer) > number THEN read_bits_from_buffer(r, number)
    ELSE read_bits_from_file(r, number)

-----------------------------------------------------------------------------
(* grouping_file_reader.py *)

\* None, which `if self._remaining_string` does not tell from ''
None == <<>>

\* GroupingFileReader(file_handler, group_size)
GroupingFileReader(group_size) ==
    [group_size |-> group_size, remaining_string |-> None]

\* [s[i:i + group_size] for i in range(0, len(s), group_size)]
group_symbols(s, group_size) ==
    [k \in 1..((Len(s) + group_size - 1) \div group_size) |->
        SubSeq(s, (k - 1) * group_size + 1, Min(k * group_size, Len(s)))]

\* list(string): its characters, each a string of its own
list(s) == [i \in 1..Len(s) |-> <<s[i]>>]

\* The short last chunk is left out of the batch and not kept either.
grouping_next_forgetting(g, src) ==
    IF src.stop
    THEN IF g.remaining_string = None
         THEN [grouper |-> g, stop |-> TRUE, groups |-> <<>>]
         ELSE [grouper |-> [g EXCEPT !.remaining_string = None], stop |-> FALSE,
               groups  |-> list(g.remaining_string)]
    ELSE LET string_to_group == g.remaining_string \o src.text
             grouped_symbols == group_symbols(string_to_group, g.group_size)
             n == Len(grouped_symbols)
         IN  IF Len(grouped_symbols[n]) < g.group_size
             THEN [grouper |-> [g EXCEPT !.remaining_string = None],
                   stop |-> FALSE, groups |-> SubSeq(grouped_symbols, 1, n - 1)]
             ELSE [grouper |-> [g EXCEPT !.remaining_string = None],
                   stop |-> FALSE, groups |-> grouped_symbols]

\* The flush returns the retained chunk and goes on retaining it.
grouping_next_flushing_again(g, src) ==
    IF src.stop
    THEN IF g.remaining_string = None
         THEN [grouper |-> g, stop |-> TRUE, groups |-> <<>>]
         ELSE [grouper |-> g, stop |-> FALSE,
               groups  |-> list(g.remaining_string)]
    ELSE LET string_to_group == g.remaining_string \o src.text
             grouped_symbols == group_symbols(string_to_group, g.group_size)
             n == Len(grouped_symbols)
         IN  IF Len(grouped_symbols[n]) < g.group_size
             THEN [grouper |-> [g EXCEPT !.remaining_string = grouped_symbols[n]],
                   stop |-> FALSE, groups |-> SubSeq(grouped_symbols, 1, n - 1)]
             ELSE [grouper |-> [g EXCEPT !.remaining_string = None],
                   stop |-> FALSE, groups |-> grouped_symbols]

\* GroupingFileReader.__next__, given what next(self._file_handler) does:
\* src.stop when it raises StopIteration, else src.text, a non-empty string
grouping_next(g, src) ==
    IF src.stop
    THEN IF g.remaining_string = None
         THEN [grouper |-> g, stop |-> TRUE, groups |-> <<>>]
         ELSE [grouper |-> [g EXCEPT !.remaining_string = None], stop |-> FALSE,
               groups  |-> list(g.remaining_string)]
    ELSE LET string_to_group == g.remaining_string \o src.text
             grouped_symbols == group_symbols(string_to_group, g.group_size)
             n == Len(grouped_symbols)
         IN  IF Len(grouped_symbols[n]) < g.group_size
             THEN [grouper |-> [g EXCEPT !.remaining_string = grouped_symbols[n]],
                   stop |-> FALSE, groups |-> SubSeq(grouped_symbols, 1, n - 1)]
             ELSE [grouper |-> [g EXCEPT !.remaining_string = None],
                   stop |-> FALSE, groups |-> grouped_symbols]

-----------------------------------------------------------------------------
(* huffman_map.py *)

\* HuffmanTreeNode(input_symbol, symbol_weight, zero_child, one_child); a
\* child is None or <<node>>
HuffmanTreeNode(input_symbol, symbol_weight, zero_child, one_child) ==
    [input_symbol |-> input_symbol, symbol_weight |-> symbol_weight,
     zero_child |-> zero_child, one_child |-> one_child]

\* HuffmanTreeNode.__lt__
lt(node, other) == node.symbol_weight < other.symbol_weight

\* Any node of the queue, whatever its weight.
heappop_any(nodes) == nodes

\* heapq.heappop(nodes): the nodes it may return.  The heap is ordered by
\* __lt__ alone, so the node popped is one that no other node is less than;
\* which one among nodes of equal weight depends on the layout of the list.
heappop(nodes) == {n \in nodes : \A m \in nodes : ~lt(m, n)}

\* the node combining the two nodes extracted
combined_node(min_1, min_2) ==
    HuffmanTreeNode(min_1.input_symbol \o min_2.input_symbol,
                    min_1.symbol_weight + min_2.symbol_weight,
                    <<min_1>>, <<min_2>>)

\* _build_huffman_tree(nodes): the roots it may return, one for each order
\* in which nodes of equal weight may be extracted
RECURSIVE build_huffman_tree(_)
build_huffman_tree(nodes) ==
    IF Cardinality(nodes) <= 1 THEN nodes
    ELSE UNION {UNION {build_huffman_tree(
                          ((nodes \ {min_1}) \ {min_2}) \cup {combined_node(min_1, min_2)})
                       : min_2 \in heappop(nodes \ {min_1})}
                : min_1 \in heappop(nodes)}

\* Both children are given the bit 0.
RECURSIVE build_map_zero_twice(_, _)
build_map_zero_twice(node, bits) ==
    IF node.zero_child = None /\ node.one_child = None
    THEN <<[symbol |-> node.input_symbol, code |-> bits]>>
    ELSE build_map_zero_twice(node.zero_child[1], bits \o <<0>>)
         \o build_map_zero_twice(node.one_child[1], bits \o <<0>>)

\* _build_huffman_map(node, encoding_map, bits): the entries it adds to
\* encoding_map, in order
RECURSIVE build_map(_, _)
build_map(node, bits) ==
    IF node.zero_child = None /\ node.one_child = None
    THEN <<[symbol |-> node.input_symbol, code |-> bits]>>
    ELSE build_map(node.zero_child[1], bits \o <<0>>)
         \o build_map(node.one_child[1], bits \o <<1>>)

\* build_huffman_map(symbol_occurrences): the maps it may return
build_huffman_map(occurrences) ==
    LET initial_huffman_nodes ==
            {HuffmanTreeNode(symbol, occurrences[symbol], None, None)
                : symbol \in DOMAIN occurrences}
    IN  {build_map(huffman_tree_root, <<>>)
            : huffman_tree_root \in build_huffman_tree(initial_huffman_nodes)}

\* dict lookups on a map kept as a sequence of entries
Symbols(map) == {map[i].symbol : i \in 1..Len(map)}

CodeOf(map, symbol) ==
    map[CHOOSE i \in 1..Len(map) : map[i].symbol = symbol
            /\ \A j \in (i + 1)..Len(map) : map[j].symbol # symbol].code

-----------------------------------------------------------------------------
(* huffman_coding.py: conversions *)

EOF == 28        \* u"\u001C", the end-of-file symbol
MAP_END == 29    \* u"\u001D", the symbol that ends the map

\* bin(n): the binary digits of n, most significant first
RECURSIVE Bin(_)
Bin(n) == IF n < 2 THEN <<n>> ELSE Bin(n \div 2) \o <<n % 2>>

\* '{0:0{num_bits}b}'.format(n, num_bits=width): the digits of n, padded
\* with zeros on the left to `width` digits; never cut, so a number that
\* needs more digits gets them all
FormatBinary(n, width) ==
    LET digits == Bin(n)
    IN  [i \in 1..(width - Len(digits)) |-> 0] \o digits

\* int(bits.to01(), 2) of a non-empty bitarray
RECURSIVE BitsToInt(_)
BitsToInt(bits) ==
    IF bits = <<>> THEN 0
    ELSE 2 * BitsToInt(SubSeq(bits, 1, Len(bits) - 1)) + bits[Len(bits)]

\* math.ceil(math.log(n, 2))
CeilLog2(n) == CHOOSE k \in 0..n : 2 ^ k >= n /\ \A j \in 0..(k - 1) : 2 ^ j < n

\* bits.tobytes() and bits.tofile(f): the bits in bytes, the last byte
\* padded with zeros
tobytes(bits) ==
    LET padded == bits \o [i \in 1..((8 - (Len(bits) % 8)) % 8) |-> 0]
    IN  [k \in 1..(Len(padded) \div 8) |-> BitsToInt(SubSeq(padded, 8 * k - 7, 8 * k))]

\* bytes(c, 'utf-8') of one character
Utf8Char(c) ==
    IF c < 128 THEN <<c>>
    ELSE IF c < 2048 THEN <<192 + (c \div 64), 128 + (c % 64)>>
    ELSE IF c < 65536
         THEN <<224 + (c \div 4096), 128 + ((c \div 64) % 64), 128 + (c % 64)>>
    ELSE <<240 + (c \div 262144), 128 + ((c \div 4096) % 64),
           128 + ((c \div 64) % 64), 128 + (c % 64)>>

\* bytes(symbol, 'utf-8')
Utf8Encode(str) == Flatten([i \in 1..Len(str) |-> Utf8Char(str[i])])

IsContinuation(b) == b >= 128 /\ b <= 191

\* the bytes of the first character of a UTF-8 byte string, 0 when it does
\* not start with a well-formed character (strict decoding: no overlong
\* forms, no surrogates, nothing above U+10FFFF, nothing cut short)
Utf8FirstLength(bs) ==
    LET b1 == bs[1]
        b2 == bs[2]
    IN  IF b1 < 128 THEN 1
        ELSE IF b1 >= 194 /\ b1 <= 223
             THEN IF Len(bs) >= 2 /\ IsContinuation(b2) THEN 2 ELSE 0
        ELSE IF b1 >= 224 /\ b1 <= 239
             THEN IF /\ Len(bs) >= 3
                     /\ IsContinuation(b2) /\ IsContinuation(bs[3])
                     /\ (b1 = 224 => b2 >= 160)
                     /\ (b1 = 237 => b2 <= 159)
                  THEN 3 ELSE 0
        ELSE IF b1 >= 240 /\ b1 <= 244
             THEN IF /\ Len(bs) >= 4
                     /\ IsContinuation(b2) /\ IsContinuation(bs[3])
                     /\ IsContinuation(bs[4])
                     /\ (b1 = 240 => b2 >= 144)
                     /\ (b1 = 244 => b2 <= 143)
                  THEN 4 ELSE 0
        ELSE 0

Utf8FirstChar(bs) ==
    LET n == Utf8FirstLength(bs)
    IN  IF n = 1 THEN bs[1]
        ELSE IF n = 2 THEN (bs[1] - 192) * 64 + (bs[2] - 128)
        ELSE IF n = 3 THEN (bs[1] - 224) * 4096 + (bs[2] - 128) * 64 + (bs[3] - 128)
        ELSE (bs[1] - 240) * 262144 + (bs[2] - 128) * 4096
             + (bs[3] - 128) * 64 + (bs[4] - 128)

\* bs.decode('utf-8'): [ok, str]; ok is FALSE for UnicodeDecodeError
RECURSIVE Utf8Decode(_)
Utf8Decode(bs) ==
    IF bs = <<>> THEN [ok |-> TRUE, str |-> <<>>]
    ELSE LET n == Utf8FirstLength(bs)
         IN  IF n = 0 THEN [ok |-> FALSE, str |-> <<>>]
             ELSE LET rest == Utf8Decode(SubSeq(bs, n + 1, Len(bs)))
                  IN  [ok |-> rest.ok, str |-> <<Utf8FirstChar(bs)>> \o rest.str]

\* iterating a text file: its lines, each with its newline
RECURSIVE Lines(_)
Lines(str) ==
    IF str = <<>> THEN <<>>
    ELSE IF \E i \in 1..Len(str) : str[i] = 10
    THEN LET i == CHOOSE j \in 1..Len(str) :
                     str[j] = 10 /\ \A h \in 1..(j - 1) : str[h] # 10
         IN  <<SubSeq(str, 1, i)>> \o Lines(SubSeq(str, i + 1, Len(str)))
    ELSE <<str>>

-----------------------------------------------------------------------------
(* huffman_coding.py: encode *)

\* for groups in GroupingFileReader(f, group_size): every group of every
\* batch, f being iterated line by line
RECURSIVE read_groups(_, _)
read_groups(g, lines) ==
    LET res == grouping_next(g, IF lines = <<>>
                                THEN [stop |-> TRUE, text |-> <<>>]
                                ELSE [stop |-> FALSE, text |-> Head(lines)])
    IN  IF res.stop THEN <<>>
        ELSE res.groups
             \o read_groups(res.grouper, IF lines = <<>> THEN <<>> ELSE Tail(lines))

file_groups(str, group_size) ==
    read_groups(GroupingFileReader(group_size), Lines(str))

\* _get_symbol_occurrences(file_path, block_size)
get_symbol_occurrences(str, group_size) ==
    LET groups == file_groups(str, group_size)
        seen   == {groups[i] : i \in 1..Len(groups)}
    IN  [symbol \in seen \cup {<<EOF>>} |->
            IF symbol = <<EOF>> THEN 1
            ELSE Cardinality({i \in 1..Len(groups) : groups[i] = symbol})]

\* _encode_huffman_map_entry(symbol, code, bytes_utf8_block)
encode_huffman_map_entry(symbol, code, bytes_utf8_block) ==
    LET symbol_bytes        == Utf8Encode(symbol)
        number_bytes_symbol == Len(symbol_bytes)
        number_bits_code    == Len(code)
    IN  FormatBinary(number_bytes_symbol, bytes_utf8_block)
        \o BytesBits(symbol_bytes)
        \o FormatBinary(number_bits_code, 5)
        \o code

\* _encode_huffman_map(encoding_map, bits_utf8_block)
encode_huffman_map(map, bytes_utf8_block) ==
    Flatten([i \in 1..Len(map) |->
                encode_huffman_map_entry(map[i].symbol, map[i].code, bytes_utf8_block)])
    \o [i \in 1..(bytes_utf8_block - 1) |-> 0] \o <<1>>
    \o BytesBits(Utf8Encode(<<MAP_END>>))

\* encoded_input.encode(encoding_map, groups), over all batches
encoded_input(map, str, group_size) ==
    LET groups == file_groups(str, group_size)
    IN  Flatten([i \in 1..Len(groups) |-> CodeOf(map, groups[i])])

\* encode(file_path, output_path, block_size, bits_utf8_block), the map
\* being map: the bytes of the file written
encode(map, str, group_size, bytes_utf8_block) ==
    tobytes(encode_huffman_map(map, bytes_utf8_block)
            \o encoded_input(map, str, group_size)
            \o CodeOf(map, <<EOF>>))

-----------------------------------------------------------------------------
(* huffman_coding.py: decode *)

\* decoding_map[code] = symbol
SetItem(map, key, value) ==
    [k \in DOMAIN map \cup {key} |-> IF k = key THEN value ELSE map[k]]

\* What _decode_huffman_map_entry does is [result, reader, map, short]:
\* result is "True" or "False" when it returns and the exception when it
\* raises; short is whether a read_bits gave fewer bits than its field has.
EntryResult(result, r, map, short) ==
    [result |-> result, reader |-> r, map |-> map, short |-> short]

\* ... the Huffman code, f4 being what read_bits(encoding_number_bits) gave
decode_entry_code(map, utf8_symbol, encoding_number_bits, f4, short) ==
    EntryResult("False", f4.reader, SetItem(map, f4.bits, utf8_symbol),
                short \/ Len(f4.bits) < encoding_number_bits)

\* ... the five bits of the code's length, f3 being what read_bits(5) gave
decode_entry_code_length(map, utf8_symbol, f3, short) ==
    IF f3.bits = <<>>
    THEN EntryResult("ValueError", f3.reader, map, TRUE)
    ELSE decode_entry_code(map, utf8_symbol, BitsToInt(f3.bits),
                           read_bits(f3.reader, BitsToInt(f3.bits)),
                           short \/ Len(f3.bits) < 5)

\* ... the symbol, f2 being what read_bits(utf8_symbol_number_bytes * 8) gave
decode_entry_symbol(map, utf8_symbol, f2, short) ==
    IF ~utf8_symbol.ok
    THEN EntryResult("UnicodeDecodeError", f2.reader, map, short)
    ELSE IF utf8_symbol.str = <<MAP_END>>
    THEN EntryResult("True", f2.reader, map, short)
    ELSE decode_entry_code_length(map, utf8_symbol.str, read_bits(f2.reader, 5), short)

\* ... the symbol's bytes, utf8_symbol_number_bytes of them
decode_entry_bytes(map, utf8_symbol_number_bytes, f2, short) ==
    decode_entry_symbol(map, Utf8Decode(tobytes(f2.bits)), f2,
                        short \/ Len(f2.bits) < utf8_symbol_number_bytes * 8)

\* ... the number of bytes, f1 being what read_bits(bits_utf8_block) gave
decode_entry_number_bytes(map, f1, bytes_utf8_block) ==
    IF f1.bits = <<>>
    THEN EntryResult("ValueError", f1.reader, map, TRUE)
    ELSE decode_entry_bytes(map, BitsToInt(f1.bits),
                            read_bits(f1.reader, BitsToInt(f1.bits) * 8),
                            Len(f1.bits) < bytes_utf8_block)

\* _decode_huffman_map_entry(decoding_map, reader, bits_utf8_block)
decode_huffman_map_entry(map, r, bytes_utf8_block) ==
    decode_entry_number_bytes(map, read_bits(r, bytes_utf8_block), bytes_utf8_block)

-----------------------------------------------------------------------------
(* The bit reader on its own: any file, any sequence of calls *)

ReaderByteValues == {0, 77, 178}

ReaderFiles == SeqsUpTo(ReaderByteValues, MaxFileBytes)

NoCall == [op |-> "init", n |-> 0, bits |-> <<>>, before |-> 0,
           bufBefore |-> 0, posBefore |-> 0]

ReaderIdle ==
    /\ reader = BinaryFileReader(<<>>)
    /\ returned = <<>>
    /\ last = NoCall

GrouperIdle ==
    /\ grouper = GroupingFileReader(1)
    /\ source = [text |-> <<>>, pos |-> 0]
    /\ yielded = <<>>
    /\ batch = <<>>
    /\ stopped = FALSE

HuffIdle ==
    /\ symbol_occurrences = <<>>
    /\ encoding_map = <<>>
    /\ built = FALSE

CodecIdle ==
    /\ text = <<>>
    /\ block_size = 1
    /\ bits_utf8_block = 2
    /\ container = <<>>
    /\ decoding_map = <<>>
    /\ encoding = <<>>
    /\ output = <<>>
    /\ pc = "idle"
    /\ outcome = ""
    /\ truncated = FALSE

RdInit ==
    /\ GrouperIdle
    /\ HuffIdle
    /\ CodecIdle
    /\ \E file \in ReaderFiles : reader = BinaryFileReader(file)
    /\ returned = <<>>
    /\ last = NoCall

\* reader.read_bits(n)
RdReadBits(n) ==
    LET res == read_bits(reader, n)
    IN  /\ reader' = res.reader
        /\ returned' = returned \o res.bits
        /\ last' = [op |-> "read_bits", n |-> n, bits |-> res.bits,
                    before |-> Len(returned), bufBefore |-> Len(reader.buffer),
                    posBefore |-> reader.pos]

\* next(reader): one bit, or StopIteration once the file is finished
RdNext ==
    IF reader.end_of_file
    THEN /\ last' = [op |-> "stop", n |-> 1, bits |-> <<>>,
                     before |-> Len(returned), bufBefore |-> Len(reader.buffer),
                     posBefore |-> reader.pos]
         /\ UNCHANGED <<reader, returned>>
    ELSE LET res == read_bits(reader, 1)
         IN  /\ reader' = res.reader
             /\ returned' = returned \o res.bits
             /\ last' = [op |-> "next", n |-> 1, bits |-> res.bits,
                         before |-> Len(returned), bufBefore |-> Len(reader.buffer),
                         posBefore |-> reader.pos]

RdNext_ ==
    \/ (\E n \in 0..MaxRead : RdReadBits(n)) /\ UNCHANGED <<groupVars, huffVars, codecVars>>
    \/ RdNext /\ UNCHANGED <<groupVars, huffVars, codecVars>>

SpecReader == RdInit /\ [][RdNext_]_vars

-----------------------------------------------------------------------------
(* The grouping reader on its own: any group size, a character stream of   *)
(* any length up to 2 * group_size + 1, delivered in any split into        *)
(* non-empty reads.  The reader slices and concatenates and never looks at *)
(* a character, so the stream is made of distinct characters: any loss,    *)
(* repetition or reordering shows.                                         *)

Stream(n) == [i \in 1..n |-> 96 + i]

GrInit ==
    /\ ReaderIdle
    /\ HuffIdle
    /\ CodecIdle
    /\ \E gs \in 1..MaxGroupSize : \E n \in 0..(2 * gs + 1) :
          /\ grouper = GroupingFileReader(gs)
          /\ source = [text |-> Stream(n), pos |-> 0]
    /\ yielded = <<>>
    /\ batch = <<>>
    /\ stopped = FALSE

\* next(grouping_reader) when the source delivers its next k characters
GrNextRead(k) ==
    /\ ~stopped
    /\ source.pos + k <= Len(source.text)
    /\ LET res == grouping_next(grouper,
                     [stop |-> FALSE,
                      text |-> SubSeq(source.text, source.pos + 1, source.pos + k)])
       IN  /\ grouper' = res.grouper
           /\ yielded' = yielded \o res.groups
           /\ batch' = res.groups
           /\ stopped' = res.stop
    /\ source' = [source EXCEPT !.pos = source.pos + k]

\* next(grouping_reader) when the source is exhausted
GrNextAtEnd ==
    /\ ~stopped
    /\ source.pos = Len(source.text)
    /\ LET res == grouping_next(grouper, [stop |-> TRUE, text |-> <<>>])
       IN  /\ grouper' = res.grouper
           /\ yielded' = yielded \o res.groups
           /\ batch' = res.groups
           /\ stopped' = res.stop
    /\ UNCHANGED source

GrNext_ ==
    \/ (\E k \in 1..(2 * MaxGroupSize + 1) : GrNextRead(k)) /\ UNCHANGED <<readerVars, huffVars, codecVars>>
    \/ GrNextAtEnd /\ UNCHANGED <<readerVars, huffVars, codecVars>>

SpecGroup == GrInit /\ [][GrNext_]_vars

-----------------------------------------------------------------------------
(* The map builder on its own: any frequency table of 1..MaxSymbols        *)
(* entries with counts 1..MaxWeight.  The first symbol is the end-of-file  *)
(* symbol, the others are letters.                                         *)

SymbolOf(i) == IF i = 1 THEN <<EOF>> ELSE <<95 + i>>

HfTables ==
    UNION {[{SymbolOf(i) : i \in 1..k} -> 1..MaxWeight] : k \in 1..MaxSymbols}

HfInit ==
    /\ ReaderIdle
    /\ GrouperIdle
    /\ CodecIdle
    /\ symbol_occurrences \in HfTables
    /\ encoding_map = <<>>
    /\ built = FALSE

\* encoding_map = build_huffman_map(symbol_occurrences)
HfBuild ==
    /\ ~built
    /\ encoding_map' \in build_huffman_map(symbol_occurrences)
    /\ built' = TRUE
    /\ UNCHANGED symbol_occurrences

HfNext_ == HfBuild /\ UNCHANGED <<readerVars, groupVars, codecVars>>

SpecHuff == HfInit /\ [][HfNext_]_vars

-----------------------------------------------------------------------------
(* Claims about the map builder *)

IsPrefix(a, b) == Len(a) <= Len(b) /\ SubSeq(b, 1, Len(a)) = a

RECURSIVE SumOver(_, _)
SumOver(f, S) ==
    IF S = {} THEN 0
    ELSE LET x == CHOOSE y \in S : TRUE IN f[x] + SumOver(f, S \ {x})

\* sum over the symbols of frequency * code length
WeightedLength(map, occurrences) ==
    SumOver([sym \in DOMAIN occurrences |->
                occurrences[sym] * Len(CodeOf(map, sym))], DOMAIN occurrences)

SetMin(S) == CHOOSE x \in S : \A y \in S : x <= y

\* The least weighted length of any binary code tree with the symbols of S
\* as its leaves, by trying every way of dividing S between the two
\* children of the root: each symbol of S is one bit below the root, plus
\* its depth in its child's tree.  A prefix-free code is the leaves of a
\* binary tree, and a node with a single child only lengthens codes, so this
\* is the least weighted length of any prefix-free code; a single symbol
\* is the root itself, with the empty code.
RECURSIVE OptimalTreeLength(_, _)
OptimalTreeLength(occurrences, S) ==
    IF Cardinality(S) = 1 THEN 0
    ELSE LET x == CHOOSE y \in S : TRUE
         IN  SumOver(occurrences, S)
             + SetMin({OptimalTreeLength(occurrences, A)
                       + OptimalTreeLength(occurrences, S \ A)
                         : A \in {B \in SUBSET S : x \in B /\ B # S}})

\* the least weighted length of any prefix-free binary code for the table
OptimalWeightedLength(occurrences) ==
    OptimalTreeLength(occurrences, DOMAIN occurrences)

\* C2: the map built has one code per symbol of the table, and of two
\* distinct symbols neither's code is a prefix of the other's.
PrefixFree ==
    built =>
      /\ Symbols(encoding_map) = DOMAIN symbol_occurrences
      /\ Len(encoding_map) = Cardinality(DOMAIN symbol_occurrences)
      /\ \A i, j \in 1..Len(encoding_map) :
            i # j => ~IsPrefix(encoding_map[i].code, encoding_map[j].code)

\* a map built for a table of at least three symbols with equal counts
TieMapReached ==
    /\ built
    /\ Len(encoding_map) >= 3
    /\ \E a, b \in DOMAIN symbol_occurrences :
          a # b /\ symbol_occurrences[a] = symbol_occurrences[b]

\* C6: every code of the map built has at least 1 bit, also when the table
\* has a single entry.
MinimumCodeLength ==
    built => \A i \in 1..Len(encoding_map) : Len(encoding_map[i].code) >= 1

\* C7: the weighted length of the map built is the least weighted length of
\* any prefix-free binary code for the table, whichever of several nodes of
\* equal weight is extracted.
Optimality ==
    built => WeightedLength(encoding_map, symbol_occurrences)
               = OptimalWeightedLength(symbol_occurrences)

\* a map built for a table whose optimal code is not of fixed length
SkewedMapReached ==
    /\ built
    /\ Len(encoding_map) = MaxSymbols
    /\ \E i, j \in 1..Len(encoding_map) :
          Len(encoding_map[i].code) + 2 <= Len(encoding_map[j].code)

-----------------------------------------------------------------------------
(* encode, then decode of the file written: any text of up to MaxTextLen   *)
(* characters that are not the two reserved ones, of 1, 3 and 4 UTF-8      *)
(* bytes and the newline, with any block size and the width main derives   *)
(* from it.                                                                *)

TextChars == {97, 10, 8364, 128512}

Texts == SeqsUpTo(TextChars, MaxTextLen)

CdInit ==
    /\ GrouperIdle
    /\ ReaderIdle
    /\ HuffIdle
    /\ text \in Texts
    /\ block_size \in 1..MaxBlockSize
    /\ bits_utf8_block = CeilLog2(block_size * 4)
    /\ container = <<>>
    /\ decoding_map = <<>>
    /\ encoding = <<>>
    /\ output = <<>>
    /\ pc = "start"
    /\ outcome = ""
    /\ truncated = FALSE

\* encode(file_path, output_path, block_size, bits_utf8_block)
CdEncode ==
    /\ pc = "start"
    /\ symbol_occurrences' = get_symbol_occurrences(text, block_size)
    /\ encoding_map' \in build_huffman_map(symbol_occurrences')
    /\ built' = TRUE
    /\ container' = encode(encoding_map', text, block_size, bits_utf8_block)
    /\ pc' = "encoded"
    /\ UNCHANGED <<text, block_size, bits_utf8_block, decoding_map, encoding,
                   output, outcome, truncated, readerVars>>

\* decode(input_path, output_path, bits_utf8_block), up to its first loop
CdOpen ==
    /\ pc = "encoded"
    /\ reader' = BinaryFileReader(container)
    /\ decoding_map' = <<>>
    /\ pc' = "header"
    /\ UNCHANGED <<text, block_size, bits_utf8_block, container, encoding,
                   output, outcome, truncated, returned, last, huffVars>>

\* decode, one pass of `while not is_map_decoding_done`
CdMapEntry ==
    /\ pc = "header"
    /\ LET res == decode_huffman_map_entry(decoding_map, reader, bits_utf8_block)
       IN  /\ reader' = res.reader
           /\ decoding_map' = res.map
           /\ truncated' = (truncated \/ res.short)
           /\ pc' = IF res.result = "True" THEN "body"
                    ELSE IF res.result = "False" THEN "header" ELSE "raised"
           /\ outcome' = IF res.result \in {"True", "False"} THEN outcome
                         ELSE res.result
    /\ UNCHANGED <<text, block_size, bits_utf8_block, container, encoding,
                   output, returned, last, huffVars>>

\* decode, one pass of `for bit in reader`
CdBit ==
    /\ pc = "body"
    /\ IF reader.end_of_file
       THEN /\ pc' = "done"
            /\ outcome' = "exhausted"
            /\ UNCHANGED <<reader, encoding, output>>
       ELSE LET res == read_bits(reader, 1)
                enc == encoding \o res.bits
            IN  /\ reader' = res.reader
                /\ IF enc \in DOMAIN decoding_map
                   THEN IF decoding_map[enc] = <<EOF>>
                        THEN /\ pc' = "done"
                             /\ outcome' = "eof"
                             /\ encoding' = enc
                             /\ UNCHANGED output
                        ELSE /\ output' = output \o decoding_map[enc]
                             /\ encoding' = <<>>
                             /\ UNCHANGED <<pc, outcome>>
                   ELSE /\ encoding' = enc
                        /\ UNCHANGED <<pc, outcome, output>>
    /\ UNCHANGED <<text, block_size, bits_utf8_block, container, decoding_map,
                   truncated, returned, last, huffVars>>

CdNext_ ==
    \/ CdEncode /\ UNCHANGED groupVars
    \/ CdOpen /\ UNCHANGED groupVars
    \/ CdMapEntry /\ UNCHANGED groupVars
    \/ CdBit /\ UNCHANGED groupVars

SpecCodec == CdInit /\ [][CdNext_]_vars

Spec == SpecCodec

-----------------------------------------------------------------------------
(* decode of an arbitrary file: any file of up to MaxContainerBytes bytes  *)
(* out of a few byte values, among them the container of the empty text,   *)
(* cut and uncut, and files that are no container at all.                  *)

DecodeByteValues == {0, 2, 14, 29, 71, 128, 142}

DecodeFiles == SeqsUpTo(DecodeByteValues, MaxContainerBytes)

DcInit ==
    /\ GrouperIdle
    /\ ReaderIdle
    /\ HuffIdle
    /\ text = <<>>
    /\ block_size \in 1..MaxBlockSize
    /\ bits_utf8_block = CeilLog2(block_size * 4)
    /\ container \in DecodeFiles
    /\ decoding_map = <<>>
    /\ encoding = <<>>
    /\ output = <<>>
    /\ pc = "encoded"
    /\ outcome = ""
    /\ truncated = FALSE

DcNext_ ==
    \/ CdOpen /\ UNCHANGED groupVars
    \/ CdMapEntry /\ UNCHANGED groupVars
    \/ CdBit /\ UNCHANGED groupVars

SpecDecode == DcInit /\ [][DcNext_]_vars

-----------------------------------------------------------------------------
(* Claims about the codec *)

\* C1: for a text without the two reserved characters and a block size of
\* 1, 2 or 3 with the width main derives from it, decode of the file encode
\* wrote ends normally and has written exactly the text.
RoundTrip ==
    pc \in {"done", "raised"} => pc = "done" /\ output = text

\* C5: the length field of bits_utf8_block = ceil(log2(block_size * 4)) bits
\* holds the UTF-8 byte count of every symbol of the map, so every header
\* entry is exactly L + 8 * bytes + 5 + code bits long.
HeaderLengthFieldFits ==
    pc # "start" =>
      \A i \in 1..Len(encoding_map) :
        LET number_bytes_symbol == Len(Utf8Encode(encoding_map[i].symbol))
        IN  /\ number_bytes_symbol <= 2 ^ bits_utf8_block - 1
            /\ Len(encode_huffman_map_entry(encoding_map[i].symbol,
                       encoding_map[i].code, bits_utf8_block))
                 = bits_utf8_block + 8 * number_bytes_symbol + 5
                   + Len(encoding_map[i].code)

\* C8: after a header read in full, decode finishes normally only by
\* decoding the end-of-file symbol: a body whose bits run out first, having
\* matched a code or not, ends decode in an error.
CorruptBodyIsFatal ==
    (pc = "done" /\ ~truncated) => outcome = "eof"

\* C9: once a header field was read with fewer bits than it has, decode
\* ends in an error: it goes on neither to the body nor to a normal end.
MalformedHeaderIsFatal ==
    truncated => pc \in {"header", "raised"}

-----------------------------------------------------------------------------
(* Claims about the grouping reader *)

\* C4: all groups of all batches yielded, the flushed remainder included,
\* concatenated in order, are exactly the character stream; before the end
\* they are, with the retained chunk, exactly what the source delivered.
GroupingFidelity ==
    /\ Flatten(yielded) \o grouper.remaining_string = Take(source.text, source.pos)
    /\ stopped => Flatten(yielded) = source.text

\* a finished iteration that returned whole groups, carried a chunk across
\* reads and flushed a remainder of more than one character
FlushedStreamReached ==
    /\ stopped
    /\ grouper.group_size >= 3
    /\ Len(source.text) = 2 * grouper.group_size - 1
    /\ Len(yielded) = grouper.group_size
    /\ Len(yielded[1]) = grouper.group_size
    /\ Len(yielded[Len(yielded)]) = 1

\* a step of the iteration in which the source delivered characters
ReadStep == source'.pos > source.pos

\* a step of the iteration made with the source exhausted
EndStep == source' = source /\ (yielded' # yielded \/ stopped' # stopped)

\* C11: a batch returned while the source delivers input has only groups of
\* exactly group_size characters; the short chunk left over is not in it but
\* retained, and goes in front of the next input read.  With the source
\* exhausted a retained chunk is flushed, character by character, and no
\* longer retained, so it is flushed once: the step after it, like the step
\* at the end with nothing retained, ends the iteration with no batch.
GroupSizesAndCarry ==
    [][/\ ReadStep =>
            /\ \A i \in 1..Len(batch') : Len(batch'[i]) = grouper.group_size
            /\ Len(grouper'.remaining_string) < grouper.group_size
            /\ Flatten(batch') \o grouper'.remaining_string
                 = grouper.remaining_string
                   \o SubSeq(source.text, source.pos + 1, source'.pos)
            /\ ~stopped'
       /\ (EndStep /\ grouper.remaining_string # None) =>
            /\ batch' = list(grouper.remaining_string)
            /\ grouper'.remaining_string = None
            /\ ~stopped'
       /\ (EndStep /\ grouper.remaining_string = None) =>
            /\ stopped'
            /\ batch' = <<>>
            /\ yielded' = yielded]_vars

\* a flush of a retained chunk of several characters that was carried
\* across a read: the state between the flush and the end of the iteration
CarriedChunkFlushedReached ==
    /\ ~stopped
    /\ grouper.group_size >= 3
    /\ source.pos = Len(source.text)
    /\ grouper.remaining_string = None
    /\ Len(batch) >= 2
    /\ \A i \in 1..Len(batch) : Len(batch[i]) = 1
    /\ Len(yielded) > Len(batch)

-----------------------------------------------------------------------------
(* Claims about the bit reader *)

FileBits == BytesBits(reader.file)

\* C3: every read_bits(n) returns exactly min(n, bits not yet returned)
\* bits, the next bits of the file in order (most significant bit of each
\* byte first); a short or empty result is how exhaustion shows, and all
\* results together are a prefix of the file's bits.
ReadBitsReturnsNextBits ==
    /\ returned = Take(FileBits, Len(returned))
    /\ last.op = "read_bits" =>
         /\ Len(last.bits) = Min(last.n, Len(FileBits) - last.before)
         /\ last.bits = SubSeq(FileBits, last.before + 1, last.before + Len(last.bits))
         /\ returned = Take(FileBits, last.before) \o last.bits

\* a read that asked for more than was left, after earlier reads, and got
\* the rest
ShortReadReached ==
    /\ last.op = "read_bits"
    /\ last.before > 0
    /\ Len(last.bits) > 0
    /\ Len(last.bits) < last.n
    /\ Len(returned) = Len(FileBits)

\* C10: the buffer holds at most 8 bits, what was read from the file and not
\* yet returned is exactly the buffer, and a call reads from the file only
\* if it hands out every bit the buffer held.
BufferAtMostOneByte ==
    /\ Len(reader.buffer) <= 8
    /\ 8 * reader.pos - Len(returned) = Len(reader.buffer)
    /\ reader.pos # last.posBefore => Len(last.bits) >= last.bufBefore

\* an iteration step that took the last bit of the buffer and refilled it
RefillAfterLastBitReached ==
    /\ last.op = "next"
    /\ last.bufBefore = 1
    /\ reader.pos = last.posBefore + 1
    /\ Len(reader.buffer) = 8

====
